---- MODULE Spec2Model ----
(***************************************************************************)
(* tidb2dw: the resumable replication orchestrator (cmd: checkStage,       *)
(* Replicate), the BigQuery merge synthesizer (bigquerysql.GenMergeInto)   *)
(* and the Databricks DDL synthesizer (databrickssql.GenDDLViaColumnsDiff).*)
(***************************************************************************)
EXTENDS Integers, Sequences, FiniteSets, TLC

\* ------------------------------------------------------------ bounds ----
\* Number of consistency points the TSO oracle hands out in a run.
MaxTSO == 2
\* Largest commit timestamp of a change-log row.
MaxCommitTs == 2
\* Largest number of change-log rows in one batch.
MaxBatch == 3
\* Largest number of items in a column diff.
MaxDiff == 3
\* Largest number of steps the body passed to runWithServer makes.
MaxBodySteps == 3
\* Largest number of requests the API server answers.
MaxRequests == 3
\* Largest number of columns of a table GenMergeInto is called for alone.
MaxColumns == 2

\* --------------------------------------------------------------- cmd ----
RunModeFull == "full"
RunModeSnapshotOnly == "snapshot-only"
RunModeIncrementalOnly == "incremental-only"
RunModeCloud == "cloud"
RunMode == {RunModeFull, RunModeSnapshotOnly, RunModeIncrementalOnly, RunModeCloud}

StageInit == "init"
StageChangefeedCreated == "changefeed-created"
StageSnapshotDumped == "snapshot-dumped"
StageSnapshotLoaded == "snapshot-loaded"
Stage == <<StageInit, StageChangefeedCreated, StageSnapshotDumped, StageSnapshotLoaded>>

StageIndex(s) == CHOOSE i \in 1..Len(Stage) : Stage[i] = s

IncrementMetadata == "increment/metadata"
SnapshotMetadata == "snapshot/metadata"
SnapshotLoadinfo == "snapshot/loadinfo"
\* The marker files in the order checkStage probes them.
MarkerFiles == <<IncrementMetadata, SnapshotMetadata, SnapshotLoadinfo>>
MarkerSet == {MarkerFiles[i] : i \in 1..Len(MarkerFiles)}

VARIABLES
    markers,     \* marker files that exist under the storage root
    pc,          \* position of the current Replicate invocation
    mode,        \* run mode of the current invocation
    stage,       \* stage checkStage returned for the current invocation
    startTSO,    \* Replicate's local startTSO
    result,      \* "none" | "running" | "nil" | "err" | "aborted"
    trace,       \* external calls made by the current invocation, in order
    startMarkers,\* markers that existed when the current invocation started
    checkErr,    \* checkStage returned an error to the current invocation
    probeFailed, \* a marker probe of the current invocation hit an I/O error
    modeHist,    \* "none", the one mode every invocation used, or "mixed"
    nextTSO,     \* the TSO oracle: consistency points handed out so far
    cdcStartTs,  \* start position the capture job was created with (-1: none)
    dumpTs       \* consistency position of the latest snapshot dump (-1: none)

rvars == <<markers, pc, mode, stage, startTSO, result, trace, startMarkers,
           checkErr, probeFailed, modeHist, nextTSO, cdcStartTs, dumpTs>>

\* ------------------------------------------------------- bigquerysql ----
VARIABLES
    tableDef,    \* cloudstorage.TableDefinition.Columns handed to GenMergeInto
    batch,       \* the change-log rows of the external table
    mergeSQL,    \* the statement GenMergeInto returned ("none" before)
    dedup,       \* the rows the inner selection let through to the merge (S)
    prevTarget,  \* the target table T before the latest merge
    target,      \* the target table T
    mergeErr,    \* the warehouse rejected the latest merge
    mpc          \* "idle" | "input" | "generated" | "applied" | "reapplied"

mvars == <<tableDef, batch, mergeSQL, dedup, prevTarget, target, mergeErr, mpc>>

\* ----------------------------------------------------- databrickssql ----
VARIABLES
    curType,     \* curTableDef.Type, the change type of the DDL event
    columnDiff,  \* the items tidbsql.GetColumnDiff returns
    diffErr,     \* tidbsql.GetColumnDiff returns an error
    ddls,        \* the statement list GenDDLViaColumnsDiff returned
    ddlsNil,     \* the returned list is the nil slice
    ddlErr,      \* the error GenDDLViaColumnsDiff returned ("nil": none)
    dpc          \* "input" | "returned"

dvars == <<curType, columnDiff, diffErr, ddls, ddlsNil, ddlErr, dpc>>

\* ----------------------------------------------------- runWithServer ----
VARIABLES
    startServer,    \* runWithServer's parameter startServer
    wpc,            \* position of the flow that called runWithServer
    listener,       \* "none" | "open" | "failed": the outcome of net.Listen
    bodyState,      \* "notstarted" | "running" | "ok" | "failed"
    bodyFlow,       \* "none" | "caller" | "goroutine": the flow body runs in
    bodyStarts,     \* number of times body() was called
    bodySteps,      \* steps of its work the body has made
    server,         \* "none" | "serving" | "stopped"
    served,         \* requests the server has answered
    servedAfterBody \* requests answered after body() had returned

svars == <<startServer, wpc, listener, bodyState, bodyFlow, bodyStarts,
           bodySteps, server, served, servedAfterBody>>

vars == <<rvars, mvars, dvars, svars>>

\* Mutant: every probe finds its file.
FileExistsAlways(ms, fails, name) ==
    [exist |-> name \notin fails, err |-> name \in fails]

\* storage.FileExists: (exist, err); `fails` are the files whose probe errors.
FileExists(ms, fails, name) ==
    [exist |-> name \in ms /\ name \notin fails, err |-> name \in fails]

\* Mutant: the wrapped probe error is dropped, as for an absent marker.
WrapDropsError(err) == FALSE

\* errors.Wrap(err, msg) is nil when err is nil.
Wrap(err) == err

\* Mutant: an absent marker does not stop the probing; the furthest marker
\* found decides the stage.
checkStageFurthestMarker(ms, openErr, fails) ==
    LET p1 == FileExists(ms, fails, IncrementMetadata)
        p2 == FileExists(ms, fails, SnapshotMetadata)
        p3 == FileExists(ms, fails, SnapshotLoadinfo)
    IN  IF openErr THEN [stage |-> StageInit, err |-> TRUE, probeErr |-> FALSE]
        ELSE IF p1.err \/ p2.err \/ p3.err
            THEN [stage |-> StageInit, err |-> TRUE, probeErr |-> TRUE]
        ELSE IF p3.exist
            THEN [stage |-> StageSnapshotLoaded, err |-> FALSE, probeErr |-> FALSE]
        ELSE IF p2.exist
            THEN [stage |-> StageSnapshotDumped, err |-> FALSE, probeErr |-> FALSE]
        ELSE IF p1.exist
            THEN [stage |-> StageChangefeedCreated, err |-> FALSE, probeErr |-> FALSE]
        ELSE [stage |-> StageInit, err |-> FALSE, probeErr |-> FALSE]

checkStage(ms, openErr, fails) ==
    LET p1 == FileExists(ms, fails, IncrementMetadata)
        p2 == FileExists(ms, fails, SnapshotMetadata)
        p3 == FileExists(ms, fails, SnapshotLoadinfo)
    IN  IF openErr THEN [stage |-> StageInit, err |-> TRUE, probeErr |-> FALSE]
        ELSE IF p1.err \/ ~p1.exist
            THEN [stage |-> StageInit, err |-> Wrap(p1.err), probeErr |-> p1.err]
        ELSE IF p2.err \/ ~p2.exist
            THEN [stage |-> StageChangefeedCreated, err |-> Wrap(p2.err), probeErr |-> p2.err]
        ELSE IF p3.err \/ ~p3.exist
            THEN [stage |-> StageSnapshotDumped, err |-> Wrap(p3.err), probeErr |-> p3.err]
        ELSE [stage |-> StageSnapshotLoaded, err |-> FALSE, probeErr |-> FALSE]

\* The run-mode condition guarding each case of Replicate's switch.
RunsCreateChangefeed(m) == m # RunModeSnapshotOnly /\ m # RunModeCloud
RunsDump(m) == m # RunModeIncrementalOnly /\ m # RunModeCloud
\* Mutant: the snapshot is loaded in snapshot-only mode alone.
RunsSnapshotLoadSnapshotOnly(m) == m = RunModeSnapshotOnly
RunsSnapshotLoad(m) == m # RunModeIncrementalOnly
\* Mutant: the incremental load is gated on the wrong run mode.
RunsIncrementLoadWrongMode(m) == m # RunModeIncrementalOnly
RunsIncrementLoad(m) == m # RunModeSnapshotOnly

\* The marker a stage action leaves behind once it has completed.
MarkerOf(act) ==
    CASE act = "CreateChangefeed" -> {IncrementMetadata}
      [] act = "RunDump" -> {SnapshotMetadata}
      [] act = "StartReplicateSnapshot" -> {SnapshotLoadinfo}
      [] OTHER -> {}

Call(act, ok) == [act |-> act, ok |-> ok]

\* Mutant: a failed call is retried in-process instead of returned.
RetryInProcess ==
    /\ pc' = pc
    /\ result' = result

\* `return err`: the invocation ends with an error.
ReturnErr ==
    /\ pc' = "returned"
    /\ result' = "err"

\* Straight-line control flow: on to the next statement.
Goto(next) ==
    /\ pc' = next
    /\ result' = result

\* Mutant: the case ends the switch (no `fallthrough`), Replicate returns nil.
BreakSwitch(next) ==
    /\ pc' = "returned"
    /\ result' = "nil"

\* Control leaves a case of the switch through `fallthrough` into `next`.
Fallthrough(next) ==
    /\ pc' = next
    /\ result' = result

ReplicateInit ==
    /\ markers = {}
    /\ pc = "idle"
    /\ mode = RunModeFull
    /\ stage = StageInit
    /\ startTSO = 0
    /\ result = "none"
    /\ trace = <<>>
    /\ startMarkers = {}
    /\ checkErr = FALSE
    /\ probeFailed = FALSE
    /\ modeHist = "none"
    /\ nextTSO = 0
    /\ cdcStartTs = -1
    /\ dumpTs = -1

\* Replicate is called: checkStage, then `return errors.Trace(err)` or go on.
Invoke ==
    /\ pc \in {"idle", "returned"}
    /\ \E m \in RunMode, openErr \in BOOLEAN, fails \in SUBSET MarkerSet :
        LET r == checkStage(markers, openErr, fails) IN
        /\ mode' = m
        /\ modeHist' = IF modeHist \in {"none", m} THEN m ELSE "mixed"
        /\ stage' = r.stage
        /\ checkErr' = r.err
        /\ probeFailed' = r.probeErr
        /\ startMarkers' = markers
        /\ trace' = <<>>
        /\ startTSO' = 0
        /\ IF r.err
              THEN ReturnErr
              ELSE pc' = "getTSO" /\ result' = "running"
    /\ UNCHANGED <<markers, nextTSO, cdcStartTs, dumpTs>>
    /\ UNCHANGED <<mvars, dvars, svars>>

\* startTSO := 0; in mode full, tidbsql.GetCurrentTSO.
GetTSO ==
    /\ pc = "getTSO"
    /\ IF mode = RunModeFull
          THEN \/ /\ nextTSO < MaxTSO
                  /\ nextTSO' = nextTSO + 1
                  /\ startTSO' = nextTSO + 1
                  /\ trace' = Append(trace, Call("GetCurrentTSO", TRUE))
                  /\ Goto("genURI")
               \/ /\ trace' = Append(trace, Call("GetCurrentTSO", FALSE))
                  /\ ReturnErr
                  /\ UNCHANGED <<nextTSO, startTSO>>
          ELSE /\ Goto("genURI")
               /\ UNCHANGED <<nextTSO, startTSO, trace>>
    /\ UNCHANGED <<markers, mode, stage, startMarkers, checkErr, probeFailed, modeHist,
                   cdcStartTs, dumpTs>>
    /\ UNCHANGED <<mvars, dvars, svars>>

\* genURI, then the switch on the stage.
GenURI ==
    /\ pc = "genURI"
    /\ \/ Goto(stage)
       \/ ReturnErr
    /\ UNCHANGED <<markers, mode, stage, startTSO, trace, startMarkers,
                   checkErr, probeFailed, modeHist, nextTSO, cdcStartTs, dumpTs>>
    /\ UNCHANGED <<mvars, dvars, svars>>

\* case StageInit
CaseInit ==
    /\ pc = StageInit
    /\ IF RunsCreateChangefeed(mode)
          THEN \/ /\ trace' = Append(trace, Call("NewCDCConnector", FALSE))
                  /\ ReturnErr
                  /\ UNCHANGED <<markers, cdcStartTs>>
               \/ /\ trace' = trace \o <<Call("NewCDCConnector", TRUE),
                                         Call("CreateChangefeed", FALSE)>>
                  /\ ReturnErr
                  /\ UNCHANGED <<markers, cdcStartTs>>
               \/ /\ trace' = trace \o <<Call("NewCDCConnector", TRUE),
                                         Call("CreateChangefeed", TRUE)>>
                  /\ markers' = markers \cup MarkerOf("CreateChangefeed")
                  /\ cdcStartTs' = startTSO
                  /\ Fallthrough(StageChangefeedCreated)
          ELSE /\ Fallthrough(StageChangefeedCreated)
               /\ UNCHANGED <<markers, trace, cdcStartTs>>
    /\ UNCHANGED <<mode, stage, startTSO, startMarkers, checkErr, probeFailed, modeHist,
                   nextTSO, dumpTs>>
    /\ UNCHANGED <<mvars, dvars, svars>>

\* case StageChangefeedCreated
CaseChangefeedCreated ==
    /\ pc = StageChangefeedCreated
    /\ IF RunsDump(mode)
          THEN \/ /\ trace' = Append(trace, Call("RunDump", FALSE))
                  /\ ReturnErr
                  /\ UNCHANGED <<markers, dumpTs>>
               \/ /\ trace' = Append(trace, Call("RunDump", TRUE))
                  /\ markers' = markers \cup MarkerOf("RunDump")
                  /\ dumpTs' = startTSO
                  /\ Fallthrough(StageSnapshotDumped)
          ELSE /\ Fallthrough(StageSnapshotDumped)
               /\ UNCHANGED <<markers, trace, dumpTs>>
    /\ UNCHANGED <<mode, stage, startTSO, startMarkers, checkErr, probeFailed, modeHist,
                   nextTSO, cdcStartTs>>
    /\ UNCHANGED <<mvars, dvars, svars>>

\* case StageSnapshotDumped
CaseSnapshotDumped ==
    /\ pc = StageSnapshotDumped
    /\ IF RunsSnapshotLoad(mode)
          THEN \/ /\ trace' = Append(trace, Call("StartReplicateSnapshot", FALSE))
                  /\ ReturnErr
                  /\ UNCHANGED markers
               \/ /\ trace' = Append(trace, Call("StartReplicateSnapshot", TRUE))
                  /\ markers' = markers \cup MarkerOf("StartReplicateSnapshot")
                  /\ Fallthrough(StageSnapshotLoaded)
          ELSE /\ Fallthrough(StageSnapshotLoaded)
               /\ UNCHANGED <<markers, trace>>
    /\ UNCHANGED <<mode, stage, startTSO, startMarkers, checkErr, probeFailed, modeHist,
                   nextTSO, cdcStartTs, dumpTs>>
    /\ UNCHANGED <<mvars, dvars, svars>>

\* case StageSnapshotLoaded, then `return nil`
CaseSnapshotLoaded ==
    /\ pc = StageSnapshotLoaded
    /\ IF RunsIncrementLoad(mode)
          THEN \/ /\ trace' = Append(trace, Call("StartReplicateIncrement", FALSE))
                  /\ ReturnErr
               \/ /\ trace' = Append(trace, Call("StartReplicateIncrement", TRUE))
                  /\ pc' = "returned"
                  /\ result' = "nil"
          ELSE /\ pc' = "returned"
               /\ result' = "nil"
               /\ UNCHANGED trace
    /\ UNCHANGED <<markers, mode, stage, startTSO, startMarkers, checkErr, probeFailed,
                   modeHist, nextTSO, cdcStartTs, dumpTs>>
    /\ UNCHANGED <<mvars, dvars, svars>>

\* The process is killed while Replicate runs.
Abort ==
    /\ result = "running"
    /\ pc' = "returned"
    /\ result' = "aborted"
    /\ UNCHANGED <<markers, mode, stage, startTSO, trace, startMarkers,
                   checkErr, probeFailed, modeHist, nextTSO, cdcStartTs, dumpTs>>
    /\ UNCHANGED <<mvars, dvars, svars>>

\* ------------------------------------------------------- bigquerysql ----
CDCCommitTsColumnName == "CDCCommitTsColumnName"
CDCFlagColumnName == "CDCFlagColumnName"

TableCol(name, isPK) == [Name |-> name, IsPK |-> isPK]

\* Table definitions the merge is generated for and run against.
MergeTableDefs ==
    { <<TableCol("id", "true"), TableCol("v", "false")>>,
      <<TableCol("id", "true")>> }
\* Column values and change flags.
Vals == {1, 2}
Flags == {"I", "U", "D"}

ColNames(td) == {td[i].Name : i \in 1..Len(td)}

RECURSIVE SubsetsUpTo(_, _)
SubsetsUpTo(S, n) ==
    IF n = 0 THEN {{}}
    ELSE LET P == SubsetsUpTo(S, n - 1)
         IN  P \cup {B \cup {r} : B \in P, r \in S}

\* A row of the external table: the table's columns, the commit ts, the flag.
ChangeRows(td) ==
    { d @@ (CDCCommitTsColumnName :> t) @@ (CDCFlagColumnName :> f) :
        d \in [ColNames(td) -> Vals], t \in 1..MaxCommitTs, f \in Flags }

\* for _, col := range tableDef.Columns { if col.IsPK == "true" ... }
pkColumn(td) ==
    LET pk == SelectSeq(td, LAMBDA c : c.IsPK = "true")
    IN  [i \in 1..Len(pk) |-> pk[i].Name]

onStat(td) ==
    LET pk == SelectSeq(td, LAMBDA c : c.IsPK = "true")
    IN  [i \in 1..Len(pk) |-> [t |-> pk[i].Name, s |-> pk[i].Name]]

\* Mutant: only the columns that are not primary keys are assigned.
updateStatNonKey(td) ==
    LET nk == SelectSeq(td, LAMBDA c : c.IsPK # "true")
    IN  [i \in 1..Len(nk) |-> [col |-> nk[i].Name, s |-> nk[i].Name]]

\* updateStat = append(updateStat, fmt.Sprintf(`%s = S.%s`, col.Name, col.Name))
updateStat(td) == [i \in 1..Len(td) |-> [col |-> td[i].Name, s |-> td[i].Name]]

insertStat(td) == [i \in 1..Len(td) |-> td[i].Name]

valuesStat(td) == [i \in 1..Len(td) |-> td[i].Name]

\* Mutant: the window orders ascending, keeping the oldest row of a key.
OrderAscending == "asc"

\* row_number() over (partition by <pk> order by <commit ts> desc)
OrderDirection == "desc"

\* Mutant: the delete clause is missing; a matched row is always updated.
WhenClausesNoDelete(td) ==
    << [matched |-> TRUE, flagIs |-> FALSE, flag |-> "D", do |-> "UPDATE",
        set |-> updateStat(td), cols |-> <<>>, values |-> <<>>],
       [matched |-> TRUE, flagIs |-> TRUE, flag |-> "D", do |-> "UPDATE",
        set |-> updateStat(td), cols |-> <<>>, values |-> <<>>],
       [matched |-> FALSE, flagIs |-> FALSE, flag |-> "D", do |-> "INSERT",
        set |-> <<>>, cols |-> insertStat(td), values |-> valuesStat(td)] >>

\* Mutant: the insert clause takes the rows flagged as deleted.
WhenClausesInsertDeleted(td) ==
    << [matched |-> TRUE, flagIs |-> FALSE, flag |-> "D", do |-> "UPDATE",
        set |-> updateStat(td), cols |-> <<>>, values |-> <<>>],
       [matched |-> TRUE, flagIs |-> TRUE, flag |-> "D", do |-> "DELETE",
        set |-> <<>>, cols |-> <<>>, values |-> <<>>],
       [matched |-> FALSE, flagIs |-> TRUE, flag |-> "D", do |-> "INSERT",
        set |-> <<>>, cols |-> insertStat(td), values |-> valuesStat(td)] >>

\* The three WHEN clauses, in the order of the statement's text.
\* flagIs: the clause asks S.<flag> = flag (TRUE) or S.<flag> != flag (FALSE).
WhenClauses(td) ==
    << [matched |-> TRUE, flagIs |-> FALSE, flag |-> "D", do |-> "UPDATE",
        set |-> updateStat(td), cols |-> <<>>, values |-> <<>>],
       [matched |-> TRUE, flagIs |-> TRUE, flag |-> "D", do |-> "DELETE",
        set |-> <<>>, cols |-> <<>>, values |-> <<>>],
       [matched |-> FALSE, flagIs |-> FALSE, flag |-> "D", do |-> "INSERT",
        set |-> <<>>, cols |-> insertStat(td), values |-> valuesStat(td)] >>

\* The statement GenMergeInto formats, as its clauses.
GenMergeInto(td) ==
    [ partitionBy |-> pkColumn(td),
      orderBy |-> CDCCommitTsColumnName,
      direction |-> OrderDirection,
      rowNum |-> 1,
      on |-> onStat(td),
      flagColumn |-> CDCFlagColumnName,
      when |-> WhenClauses(td) ]

\* --- what the statement does in the warehouse ---
PartitionKey(stmt, r) == [i \in 1..Len(stmt.partitionBy) |-> r[stmt.partitionBy[i]]]

\* r sorts before q in the window's order.
Before(stmt, r, q) ==
    IF stmt.direction = "desc" THEN r[stmt.orderBy] > q[stmt.orderBy]
    ELSE r[stmt.orderBy] < q[stmt.orderBy]

\* The rows that can get row_num = 1 in the partition of key k (ties are
\* numbered in an order the warehouse chooses).
FirstRows(stmt, B, k) ==
    {r \in B : /\ PartitionKey(stmt, r) = k
               /\ \A q \in B : PartitionKey(stmt, q) = k => ~Before(stmt, q, r)}

RECURSIVE PickFirst(_, _, _)
\* One row with row_num = 1 from each partition in parts, in every way.
PickFirst(stmt, B, parts) ==
    IF parts = {} THEN {{}}
    ELSE LET k == CHOOSE x \in parts : TRUE
         IN  {P \cup {r} : P \in PickFirst(stmt, B, parts \ {k}),
                           r \in FirstRows(stmt, B, k)}

\* Every result the inner selection (WHERE row_num = 1) can have.
InnerSelections(stmt, B) == PickFirst(stmt, B, {PartitionKey(stmt, r) : r \in B})

Matches(stmt, t, s) == \A i \in 1..Len(stmt.on) : t[stmt.on[i].t] = s[stmt.on[i].s]

ClauseHolds(stmt, c, s, isMatched) ==
    /\ c.matched = isMatched
    /\ (s[stmt.flagColumn] = c.flag) = c.flagIs

\* Index of the first WHEN clause that applies to s, 0 when none does.
ClauseFor(stmt, s, isMatched) ==
    LET hit == {i \in 1..Len(stmt.when) : ClauseHolds(stmt, stmt.when[i], s, isMatched)}
    IN  IF hit = {} THEN 0 ELSE CHOOSE i \in hit : \A j \in hit : i <= j

Updated(c, t, s) ==
    [col \in DOMAIN t |->
        IF \E i \in 1..Len(c.set) : c.set[i].col = col
        THEN s[c.set[CHOOSE i \in 1..Len(c.set) : c.set[i].col = col].s]
        ELSE t[col]]

Inserted(c, s) ==
    [col \in {c.cols[i] : i \in 1..Len(c.cols)} |->
        s[c.values[CHOOSE i \in 1..Len(c.cols) : c.cols[i] = col]]]

\* MERGE INTO T USING S ON ... WHEN ...: the table afterwards, or an error
\* when a row of T matches more than one row of S.
ExecMerge(stmt, T, S) ==
    LET acting == {s \in S : ClauseFor(stmt, s, TRUE) # 0}
        pairs == {p \in T \X acting : Matches(stmt, p[1], p[2])}
        untouched == T \ {p[1] : p \in pairs}
        updated == {Updated(stmt.when[ClauseFor(stmt, p[2], TRUE)], p[1], p[2]) :
                      p \in {q \in pairs :
                                stmt.when[ClauseFor(stmt, q[2], TRUE)].do = "UPDATE"}}
        inserted == {Inserted(stmt.when[ClauseFor(stmt, s, FALSE)], s) :
                      s \in {x \in S : /\ ClauseFor(stmt, x, FALSE) # 0
                                       /\ \A t \in T : ~Matches(stmt, t, x)}}
    IN  IF \E p, q \in pairs : p[1] = q[1] /\ p[2] # q[2]
        THEN [err |-> TRUE, table |-> T]
        ELSE [err |-> FALSE, table |-> untouched \cup updated \cup inserted]

\* Target tables: at most one row per primary key.
Tables(td) ==
    LET key(t) == [i \in 1..Len(pkColumn(td)) |-> t[pkColumn(td)[i]]]
    IN  {T \in SUBSET [ColNames(td) -> Vals] :
            \A t, u \in T : key(t) = key(u) => t = u}

MergeIdle ==
    /\ tableDef = <<>>
    /\ batch = {}
    /\ mergeSQL = "none"
    /\ dedup = {}
    /\ prevTarget = {}
    /\ target = {}
    /\ mergeErr = FALSE
    /\ mpc = "idle"

\* A table definition, a target table and a batch of the external table.
MergeInputs ==
    /\ tableDef \in MergeTableDefs
    /\ batch \in SubsetsUpTo(ChangeRows(tableDef), MaxBatch)
    /\ target \in Tables(tableDef)
    /\ prevTarget = target
    /\ mergeSQL = "none"
    /\ dedup = {}
    /\ mergeErr = FALSE
    /\ mpc = "input"

\* mergeSQL := GenMergeInto(tableDef, ...)
GenMerge ==
    /\ mpc = "input"
    /\ mergeSQL' = GenMergeInto(tableDef)
    /\ mpc' = "generated"
    /\ UNCHANGED <<tableDef, batch, dedup, prevTarget, target, mergeErr>>
    /\ UNCHANGED <<rvars, dvars, svars>>

\* The warehouse runs the statement on the batch (a second time: a replay).
ApplyMerge ==
    /\ mpc \in {"generated", "applied"}
    /\ \E S \in InnerSelections(mergeSQL, batch) :
        \E r \in {ExecMerge(mergeSQL, target, S)} :
        /\ dedup' = S
        /\ prevTarget' = target
        /\ target' = r.table
        /\ mergeErr' = r.err
    /\ mpc' = IF mpc = "generated" THEN "applied" ELSE "reapplied"
    /\ UNCHANGED <<tableDef, batch, mergeSQL>>
    /\ UNCHANGED <<rvars, dvars, svars>>

\* ----------------------------------------------------- databrickssql ----
\* timodel.ActionType values a DDL event can carry.
ActionTruncateTable == "ActionTruncateTable"
ActionDropTable == "ActionDropTable"
ActionCreateTable == "ActionCreateTable"
ActionRenameTable == "ActionRenameTable"
ActionRenameTables == "ActionRenameTables"
ActionDropSchema == "ActionDropSchema"
ActionCreateSchema == "ActionCreateSchema"
ActionAddColumn == "ActionAddColumn"
ActionTypes ==
    {ActionTruncateTable, ActionDropTable, ActionCreateTable, ActionRenameTable,
     ActionRenameTables, ActionDropSchema, ActionCreateSchema, ActionAddColumn}

\* tidbsql column diff actions.
ADD_COLUMN == "ADD_COLUMN"
DROP_COLUMN == "DROP_COLUMN"
MODIFY_COLUMN == "MODIFY_COLUMN"
RENAME_COLUMN == "RENAME_COLUMN"
UNCHANGE == "UNCHANGE"

\* curTableDef.Table and curTableDef.Schema
CurTable == "t"
CurSchema == "s"

Col(name, tp, nullable) == [Name |-> name, Tp |-> tp, Nullable |-> nullable]
NoCol == Col("", "", "")
DiffItem(action, before, after) == [Action |-> action, Before |-> before, After |-> after]

\* The diff items a column diff is drawn from.
DiffItems ==
    { DiffItem(ADD_COLUMN, NoCol, Col("a", "int", "false")),
      DiffItem(ADD_COLUMN, NoCol, Col("g", "geometry", "true")),
      DiffItem(DROP_COLUMN, Col("b", "varchar", "true"), NoCol),
      DiffItem(MODIFY_COLUMN, Col("c", "int", "true"), Col("c", "varchar", "true")),
      DiffItem(RENAME_COLUMN, Col("d", "int", "true"), Col("e", "int", "true")),
      DiffItem(UNCHANGE, Col("f", "int", "false"), Col("f", "int", "false")) }

RECURSIVE SeqsUpTo(_, _)
SeqsUpTo(S, n) ==
    IF n = 0 THEN {<<>>}
    ELSE LET P == SeqsUpTo(S, n - 1)
         IN  P \cup {Append(q, x) : q \in P, x \in S}

\* GetDatabricksTypeString: the dialect's type name, or an error for a type
\* the dialect has no mapping for.
GetDatabricksTypeString(column) ==
    CASE column.Tp = "int" -> [str |-> <<"INT">>, err |-> "nil"]
      [] column.Tp = "varchar" -> [str |-> <<"STRING">>, err |-> "nil"]
      [] OTHER -> [str |-> <<>>, err |-> "unsupported type"]

\* Mutant: the column's name is left out of its description.
GetDatabricksColumnStringNoName(column) ==
    LET t == GetDatabricksTypeString(column)
    IN  IF t.err # "nil" THEN [str |-> <<>>, err |-> t.err]
        ELSE [str |-> t.str \o
                        (IF column.Nullable = "false" THEN <<"NOT NULL">> ELSE <<>>),
              err |-> "nil"]

GetDatabricksColumnString(column) ==
    LET t == GetDatabricksTypeString(column)
    IN  IF t.err # "nil" THEN [str |-> <<>>, err |-> t.err]
        ELSE [str |-> <<column.Name>> \o t.str \o
                        (IF column.Nullable = "false" THEN <<"NOT NULL">> ELSE <<>>),
              err |-> "nil"]

\* return <statements>, nil
ReturnDDLs(stmts) == [ddls |-> stmts, isNil |-> FALSE, err |-> "nil"]
\* return nil, <error>
ReturnNilErr(msg) == [ddls |-> <<>>, isNil |-> TRUE, err |-> msg]

\* Mutant: the statements rendered so far are returned beside the error.
OnModifyColumnKeepsStatements(sofar) ==
    [ddls |-> sofar, isNil |-> FALSE, err |-> "modify column not supported"]

\* case tidbsql.MODIFY_COLUMN
OnModifyColumn(sofar) == ReturnNilErr("modify column not supported")

RECURSIVE DiffLoop(_, _, _)
\* for _, item := range columnDiff { ... }; return ddls, nil
DiffLoop(diff, i, sofar) ==
    IF i > Len(diff) THEN ReturnDDLs(sofar)
    ELSE LET item == diff[i] IN
        CASE item.Action = ADD_COLUMN ->
                LET c == GetDatabricksColumnString(item.After)
                IN  IF c.err # "nil" THEN ReturnNilErr(c.err)
                    ELSE DiffLoop(diff, i + 1,
                            Append(sofar, <<"ALTER TABLE", CurTable, "ADD COLUMN">>
                                              \o c.str \o <<";">>))
          [] item.Action = DROP_COLUMN ->
                DiffLoop(diff, i + 1,
                    Append(sofar, <<"ALTER TABLE", CurTable, "DROP COLUMN",
                                    item.Before.Name, ";">>))
          [] item.Action = MODIFY_COLUMN -> OnModifyColumn(sofar)
          [] item.Action = RENAME_COLUMN ->
                DiffLoop(diff, i + 1,
                    Append(sofar, <<"ALTER TABLE", CurTable, "RENAME COLUMN",
                                    item.Before.Name, "TO", item.After.Name, ";">>))
          [] OTHER -> DiffLoop(diff, i + 1, sofar)

\* diff, dErr: what tidbsql.GetColumnDiff(prevColumns, curTableDef.Columns) returns.
GenDDLViaColumnsDiff(type, diff, dErr) ==
    IF type = ActionTruncateTable THEN ReturnDDLs(<< <<"TRUNCATE TABLE", CurTable>> >>)
    ELSE IF type = ActionDropTable THEN ReturnDDLs(<< <<"DROP TABLE", CurTable>> >>)
    ELSE IF type = ActionCreateTable THEN ReturnNilErr("create table")
    ELSE IF type = ActionRenameTables THEN ReturnNilErr("rename table")
    ELSE IF type = ActionDropSchema
        THEN ReturnDDLs(<< <<"DROP SCHEMA", CurSchema, "CASCADE">> >>)
    ELSE IF type = ActionCreateSchema THEN ReturnNilErr("create schema")
    ELSE IF dErr THEN ReturnNilErr("column diff")
    ELSE DiffLoop(diff, 1, <<>>)

DDLIdle ==
    /\ curType = "none"
    /\ columnDiff = <<>>
    /\ diffErr = FALSE
    /\ ddls = <<>>
    /\ ddlsNil = TRUE
    /\ ddlErr = "nil"
    /\ dpc = "idle"

\* A DDL event: its change type and the column diff of its table definition.
DDLInputs ==
    /\ curType \in ActionTypes
    /\ columnDiff \in SeqsUpTo(DiffItems, MaxDiff)
    /\ diffErr \in BOOLEAN
    /\ ddls = <<>>
    /\ ddlsNil = TRUE
    /\ ddlErr = "nil"
    /\ dpc = "input"

\* ddls, err := GenDDLViaColumnsDiff(prevColumns, curTableDef)
GenDDL ==
    /\ dpc = "input"
    /\ LET r == GenDDLViaColumnsDiff(curType, columnDiff, diffErr) IN
        /\ ddls' = r.ddls
        /\ ddlsNil' = r.isNil
        /\ ddlErr' = r.err
    /\ dpc' = "returned"
    /\ UNCHANGED <<curType, columnDiff, diffErr>>
    /\ UNCHANGED <<rvars, mvars, svars>>

\* ------------------------------------------------------ runWithServer ----
\* Where the calling flow stands after net.Listen returned an error:
\* log.Fatal ends the process (the return behind it is never reached).
OnListenErrorContinues == "listened"

OnListenError == "exited"

\* The control flow body() is called in: the calling flow when no server is
\* asked for, a goroutine of its own otherwise.
BodyFlow(start) == IF start THEN "goroutine" ELSE "caller"

\* Where the calling flow stands once its goroutine's closure has ended:
\* where it stood, the closure does nothing after body().
GoroutineEndExits(w) == "exited"

GoroutineEnd(w) == w

\* The state of the server once the calling flow stands at w.
ServerAt(w, s) == IF w = "exited" /\ s = "serving" THEN "stopped" ELSE s

ServerIdle ==
    /\ startServer = FALSE
    /\ wpc = "idle"
    /\ listener = "none"
    /\ bodyState = "notstarted"
    /\ bodyFlow = "none"
    /\ bodyStarts = 0
    /\ bodySteps = 0
    /\ server = "none"
    /\ served = 0
    /\ servedAfterBody = 0

\* runWithServer(startServer, addr, body) is entered.
ServerInputs ==
    /\ startServer \in BOOLEAN
    /\ wpc = "entry"
    /\ listener = "none"
    /\ bodyState = "notstarted"
    /\ bodyFlow = "none"
    /\ bodyStarts = 0
    /\ bodySteps = 0
    /\ server = "none"
    /\ served = 0
    /\ servedAfterBody = 0

\* if !startServer { body(); return }: body is called in the calling flow.
RunBodyInline ==
    /\ wpc = "entry"
    /\ ~startServer
    /\ wpc' = "inBody"
    /\ bodyFlow' = BodyFlow(startServer)
    /\ bodyState' = "running"
    /\ bodyStarts' = bodyStarts + 1
    /\ UNCHANGED <<startServer, listener, bodySteps, server, served,
                   servedAfterBody>>
    /\ UNCHANGED <<rvars, mvars, dvars>>

\* l, err := net.Listen("tcp", addr)
Listen ==
    /\ wpc = "entry"
    /\ startServer
    /\ \E ok \in BOOLEAN :
        /\ listener' = IF ok THEN "open" ELSE "failed"
        /\ wpc' = IF ok THEN "listened" ELSE OnListenError
    /\ UNCHANGED <<startServer, bodyState, bodyFlow, bodyStarts, bodySteps,
                   server, served, servedAfterBody>>
    /\ UNCHANGED <<rvars, mvars, dvars>>

\* go func() { body() }()
GoBody ==
    /\ wpc = "listened"
    /\ wpc' = "spawned"
    /\ bodyFlow' = BodyFlow(startServer)
    /\ bodyState' = "running"
    /\ bodyStarts' = bodyStarts + 1
    /\ UNCHANGED <<startServer, listener, bodySteps, server, served,
                   servedAfterBody>>
    /\ UNCHANGED <<rvars, mvars, dvars>>

\* apiservice.GlobalInstance.Serve(l): the calling flow serves from now on.
Serve ==
    /\ wpc = "spawned"
    /\ wpc' = "serving"
    /\ server' = "serving"
    /\ UNCHANGED <<startServer, listener, bodyState, bodyFlow, bodyStarts,
                   bodySteps, served, servedAfterBody>>
    /\ UNCHANGED <<rvars, mvars, dvars>>

\* The body makes a step of its own work.
BodyStep ==
    /\ bodyState = "running"
    /\ bodySteps < MaxBodySteps
    /\ bodySteps' = bodySteps + 1
    /\ UNCHANGED <<startServer, wpc, listener, bodyState, bodyFlow,
                   bodyStarts, server, served, servedAfterBody>>
    /\ UNCHANGED <<rvars, mvars, dvars>>

\* body() returns, its work done or failed.  In the calling flow
\* runWithServer returns after it; in the goroutine the closure ends.
BodyReturns ==
    /\ bodyState = "running"
    /\ \E outcome \in {"ok", "failed"} : bodyState' = outcome
    /\ \E w \in {IF bodyFlow = "caller" THEN "returned" ELSE GoroutineEnd(wpc)} :
        /\ wpc' = w
        /\ server' = ServerAt(w, server)
    /\ UNCHANGED <<startServer, listener, bodyFlow, bodyStarts, bodySteps,
                   served, servedAfterBody>>
    /\ UNCHANGED <<rvars, mvars, dvars>>

\* The serving flow answers one request.
HandleRequest ==
    /\ server = "serving"
    /\ served < MaxRequests
    /\ served' = served + 1
    /\ servedAfterBody' =
           IF bodyState \in {"ok", "failed"} THEN servedAfterBody + 1
           ELSE servedAfterBody
    /\ UNCHANGED <<startServer, wpc, listener, bodyState, bodyFlow,
                   bodyStarts, bodySteps, server>>
    /\ UNCHANGED <<rvars, mvars, dvars>>

Init == ReplicateInit /\ MergeIdle /\ DDLIdle /\ ServerIdle

Next ==
    \/ Invoke
    \/ GetTSO
    \/ GenURI
    \/ CaseInit
    \/ CaseChangefeedCreated
    \/ CaseSnapshotDumped
    \/ CaseSnapshotLoaded
    \/ Abort

Spec == Init /\ [][Next]_vars

MergeInit == ReplicateInit /\ MergeInputs /\ DDLIdle /\ ServerIdle

MergeNext ==
    \/ GenMerge
    \/ ApplyMerge

MergeSpec == MergeInit /\ [][MergeNext]_vars

DDLInit == ReplicateInit /\ MergeIdle /\ DDLInputs /\ ServerIdle

DDLNext == GenDDL

DDLSpec == DDLInit /\ [][DDLNext]_vars

\* A table definition GenMergeInto is called for: up to MaxColumns columns
\* of distinct names, each a primary-key column or not.
GenColumns == {TableCol(n, k) : n \in {"a", "b", "c", "d"}, k \in {"true", "false"}}

GenTableDefs ==
    {td \in SeqsUpTo(GenColumns, MaxColumns) :
        /\ Len(td) >= 1
        /\ \A i, j \in 1..Len(td) : td[i].Name = td[j].Name => i = j}

GenInputs ==
    /\ tableDef \in GenTableDefs
    /\ batch = {}
    /\ target = {}
    /\ prevTarget = {}
    /\ mergeSQL = "none"
    /\ dedup = {}
    /\ mergeErr = FALSE
    /\ mpc = "input"

GenInit == ReplicateInit /\ GenInputs /\ DDLIdle /\ ServerIdle

GenNext == GenMerge

GenSpec == GenInit /\ [][GenNext]_vars

ServerInit == ReplicateInit /\ MergeIdle /\ DDLIdle /\ ServerInputs

ServerNext ==
    \/ RunBodyInline
    \/ Listen
    \/ GoBody
    \/ Serve
    \/ BodyStep
    \/ BodyReturns
    \/ HandleRequest

ServerSpec == ServerInit /\ [][ServerNext]_vars

\* ---------------------------------------------- orchestrator claims ----
\* The four stage actions of Replicate's switch, in stage order.
StageActions == <<"CreateChangefeed", "RunDump", "StartReplicateSnapshot",
                  "StartReplicateIncrement">>
StageActionSet == {StageActions[i] : i \in 1..Len(StageActions)}

IsStageAction(c) == c.act \in StageActionSet
IsClaimedStep(c) == c.act \in StageActionSet \cup {"GetCurrentTSO"}
Names(tr) == [i \in 1..Len(tr) |-> tr[i].act]
Called(act) == \E i \in 1..Len(trace) : trace[i].act = act
AllOk(tr) == \A i \in 1..Len(tr) : tr[i].ok
\* The stage actions the current invocation has run so far, in order.
StageTrace == Names(SelectSeq(trace, IsStageAction))
IsPrefix(a, b) == Len(a) <= Len(b) /\ \A i \in 1..Len(a) : a[i] = b[i]

\* C1: while every invocation on the storage root used the same run mode, an
\* invocation never runs a stage action whose completion marker existed when
\* the invocation started (capture job / increment/metadata, dump /
\* snapshot/metadata, snapshot load / snapshot/loadinfo).
C1_NoActionWithMarkerAtStart ==
    modeHist # "mixed" =>
        \A a \in {"CreateChangefeed", "RunDump", "StartReplicateSnapshot"} :
            Called(a) => MarkerOf(a) \cap startMarkers = {}

\* C2: a failure-free invocation in mode full that started with no markers
\* has acquired a start position, created the capture job, dumped the
\* snapshot, loaded it and loaded the increments, in this order, each once,
\* and all three markers exist when it has returned nil.
C2_FreshFullRun ==
    (mode = RunModeFull /\ startMarkers = {} /\ result = "nil") =>
        /\ Names(SelectSeq(trace, IsClaimedStep)) =
              <<"GetCurrentTSO", "CreateChangefeed", "RunDump",
                "StartReplicateSnapshot", "StartReplicateIncrement">>
        /\ AllOk(trace)
        /\ markers = MarkerSet

C2_Witness ==
    /\ mode = RunModeFull
    /\ startMarkers = {}
    /\ result = "nil"
    /\ Len(trace) = 6

\* C3 as stated: entered in mode full with exactly increment/metadata and
\* snapshot/metadata present, the only stage action run is the incremental load.
C3_OnlyIncrementLoad ==
    (mode = RunModeFull /\ pc # "idle"
        /\ startMarkers = {IncrementMetadata, SnapshotMetadata}) =>
        \A i \in 1..Len(StageTrace) : StageTrace[i] = "StartReplicateIncrement"

\* C3 amended: entered in mode full with exactly increment/metadata and
\* snapshot/metadata present, the invocation creates no capture job and dumps
\* no snapshot; the stage actions it runs are the snapshot load followed by
\* the incremental load, and a failure-free invocation runs both.
C3_LoadThenIncrement ==
    (mode = RunModeFull /\ pc # "idle"
        /\ startMarkers = {IncrementMetadata, SnapshotMetadata}) =>
        /\ IsPrefix(StageTrace, <<"StartReplicateSnapshot", "StartReplicateIncrement">>)
        /\ result = "nil" =>
              StageTrace = <<"StartReplicateSnapshot", "StartReplicateIncrement">>

C3_Witness ==
    /\ mode = RunModeFull
    /\ startMarkers = {IncrementMetadata, SnapshotMetadata}
    /\ result = "nil"
    /\ StageTrace = <<"StartReplicateSnapshot", "StartReplicateIncrement">>

\* The run modes that skip each stage action, as the claim lists them.
SkippedBy(act) ==
    CASE act = "CreateChangefeed" -> {RunModeSnapshotOnly, RunModeCloud}
      [] act = "RunDump" -> {RunModeIncrementalOnly, RunModeCloud}
      [] act = "StartReplicateSnapshot" -> {RunModeIncrementalOnly}
      [] act = "StartReplicateIncrement" -> {RunModeSnapshotOnly}

RECURSIVE ExpectedFrom(_, _)
ExpectedFrom(i, m) ==
    IF i > Len(StageActions) THEN <<>>
    ELSE (IF m \in SkippedBy(StageActions[i]) THEN <<>> ELSE <<StageActions[i]>>)
         \o ExpectedFrom(i + 1, m)

\* C4: a failure-free invocation entered at stage s in mode m has run exactly
\* the actions of the stages at or after s that m does not skip, each once and
\* in stage order.
C4_RemainingStagesOnce ==
    result = "nil" =>
        /\ StageTrace = ExpectedFrom(StageIndex(stage), mode)
        /\ AllOk(trace)

C4_Witness ==
    /\ result = "nil"
    /\ stage = StageChangefeedCreated
    /\ mode = RunModeSnapshotOnly
    /\ StageTrace = <<"RunDump", "StartReplicateSnapshot">>

RECURSIVE PrefixLen(_, _)
\* Length of the longest all-present prefix of MarkerFiles from position i on.
PrefixLen(ms, i) ==
    IF i > Len(MarkerFiles) \/ MarkerFiles[i] \notin ms THEN 0
    ELSE 1 + PrefixLen(ms, i + 1)

\* C5: when checkStage returns without error, the index of the returned stage
\* is the length of the longest prefix of [increment/metadata,
\* snapshot/metadata, snapshot/loadinfo] whose markers all exist, so the
\* markers of all earlier stages exist.
C5_StageIsMarkerPrefix ==
    (pc # "idle" /\ ~checkErr) =>
        /\ StageIndex(stage) - 1 = PrefixLen(startMarkers, 1)
        /\ \A i \in 1..(StageIndex(stage) - 1) : MarkerFiles[i] \in startMarkers

C5_Witness ==
    /\ pc # "idle"
    /\ ~checkErr
    /\ startMarkers = {SnapshotMetadata, SnapshotLoadinfo}
    /\ stage = StageInit

\* C6: when a marker probe fails with an I/O error, checkStage returns an
\* error and Replicate returns an error without having run any stage action
\* or acquired a start position.
C6_ProbeErrorAborts ==
    probeFailed =>
        /\ checkErr
        /\ pc = "returned"
        /\ result = "err"
        /\ trace = <<>>
        /\ startTSO = 0

C6_Witness ==
    /\ probeFailed
    /\ startMarkers = {IncrementMetadata}
    /\ stage = StageChangefeedCreated
    /\ result = "err"

\* C7: a failed call is the last call of its invocation and the invocation
\* returned an error; no call is made twice within one invocation.
C7_FailureEndsInvocation ==
    /\ \A i \in 1..Len(trace) :
          ~trace[i].ok => (i = Len(trace) /\ pc = "returned" /\ result = "err")
    /\ \A i, j \in 1..Len(trace) : trace[i].act = trace[j].act => i = j

C7_Witness ==
    /\ result = "err"
    /\ Len(trace) = 4
    /\ trace[4] = Call("RunDump", FALSE)

\* ----------------------------------------------------- merge claims ----
PKNames(td) == {td[i].Name : i \in {j \in 1..Len(td) : td[j].IsPK = "true"}}
\* The primary key of a row (of the table or of the change log).
KeyOf(r) == [c \in PKNames(tableDef) |-> r[c]]
\* The table columns of a change-log row.
DataOf(r) == [c \in ColNames(tableDef) |-> r[c]]
TsOf(r) == r[CDCCommitTsColumnName]
FlagOf(r) == r[CDCFlagColumnName]
BatchKeys == {KeyOf(r) : r \in batch}
\* The rows of key k with the maximum commit ts of that key in the batch.
Latest(k) ==
    {r \in batch : KeyOf(r) = k /\ \A q \in batch : KeyOf(q) = k => TsOf(q) <= TsOf(r)}
\* Rows of the same key have distinct ordering keys.
DistinctTs ==
    \A r, q \in batch : (KeyOf(r) = KeyOf(q) /\ TsOf(r) = TsOf(q)) => r = q

\* C8: for every primary key occurring in the batch, exactly one row of that
\* key reaches the merge step, and it is a row of the batch with the maximum
\* commit timestamp of that key.
C8_OneLatestRowPerKey ==
    mpc \in {"applied", "reapplied"} =>
        /\ dedup \subseteq batch
        /\ \A k \in BatchKeys :
              /\ Cardinality({s \in dedup : KeyOf(s) = k}) = 1
              /\ \A s \in dedup : KeyOf(s) = k => s \in Latest(k)

\* key 1 updated at ts 1 and deleted at ts 2, key 2 inserted at ts 1: only the
\* delete of key 1 and the insert of key 2 reach the merge.
C8_Witness ==
    /\ mpc = "applied"
    /\ Len(tableDef) = 2
    /\ Cardinality(batch) = 3
    /\ \E u, d, i \in batch :
          /\ u["id"] = 1 /\ TsOf(u) = 1 /\ FlagOf(u) = "U"
          /\ d["id"] = 1 /\ TsOf(d) = 2 /\ FlagOf(d) = "D"
          /\ i["id"] = 2 /\ TsOf(i) = 1 /\ FlagOf(i) = "I"
          /\ dedup = {d, i}
          /\ target = (prevTarget \ {t \in prevTarget : t["id"] = 1})
                          \cup {DataOf(i)}

\* One change-log row replayed on a table: a delete removes the row of the
\* key if present, any other flag upserts the row's values.
ApplyOne(T, r) ==
    LET rest == {t \in T : KeyOf(t) # KeyOf(r)}
    IN  IF FlagOf(r) = "D" THEN rest ELSE rest \cup {DataOf(r)}

RECURSIVE Replay(_, _)
\* The batch replayed row by row in ascending commit-ts order.
Replay(T, B) ==
    IF B = {} THEN T
    ELSE LET r == CHOOSE x \in B : \A q \in B : TsOf(x) <= TsOf(q)
         IN  Replay(ApplyOne(T, r), B \ {r})

\* C9: when rows of the same key have distinct commit timestamps, one
\* application of the merge yields the table that replaying the batch per key
\* in ascending commit-ts order yields (upsert for non-delete flags,
\* delete-if-present for the delete flag): a key whose latest row is a
\* non-delete ends with that row's values, a key whose latest row is a delete
\* ends absent, keys not in the batch are unchanged.
C9_MergeEqualsReplay ==
    (mpc = "applied" /\ DistinctTs) =>
        /\ ~mergeErr
        /\ target = Replay(prevTarget, batch)
        /\ \A k \in BatchKeys : \A l \in Latest(k) :
              {t \in target : KeyOf(t) = k} =
                  IF FlagOf(l) = "D" THEN {} ELSE {DataOf(l)}
        /\ {t \in target : KeyOf(t) \notin BatchKeys} =
              {t \in prevTarget : KeyOf(t) \notin BatchKeys}

\* A present key deleted and then re-written with new values, and a delete of
\* an absent key, in one batch.
C9_Witness ==
    /\ mpc = "applied"
    /\ DistinctTs
    /\ Cardinality(batch) = 3
    /\ \E d, u, a \in batch :
          /\ KeyOf(d) = KeyOf(u) /\ FlagOf(d) = "D" /\ FlagOf(u) = "U"
          /\ TsOf(d) < TsOf(u)
          /\ \E t \in prevTarget : KeyOf(t) = KeyOf(u) /\ t # DataOf(u)
          /\ DataOf(u) \in target
          /\ FlagOf(a) = "D" /\ KeyOf(a) # KeyOf(u)
          /\ \A t \in prevTarget : KeyOf(t) # KeyOf(a)
          /\ Cardinality(target) = 1

\* ------------------------------------------------------- DDL claims ----
\* The change types GenDDLViaColumnsDiff answers before diffing the columns.
TableLevelTypes ==
    {ActionTruncateTable, ActionDropTable, ActionCreateTable, ActionRenameTables,
     ActionDropSchema, ActionCreateSchema}
\* The column diff was computed and handed to the rendering loop.
DiffComputed == dpc = "returned" /\ curType \notin TableLevelTypes /\ ~diffErr
HasItem(action) == \E i \in 1..Len(columnDiff) : columnDiff[i].Action = action

\* C10: when the column diff holds a Modify item, GenDDLViaColumnsDiff
\* returns an error and the nil statement list: no statement at all, also not
\* those of the Add, Drop or Rename items before the Modify item.
C10_ModifyFailsWithoutStatements ==
    (DiffComputed /\ HasItem(MODIFY_COLUMN)) =>
        /\ ddlErr # "nil"
        /\ ddlsNil
        /\ ddls = <<>>

C10_Witness ==
    /\ DiffComputed
    /\ Len(columnDiff) = 3
    /\ columnDiff[1].Action = ADD_COLUMN
    /\ columnDiff[2].Action = DROP_COLUMN
    /\ columnDiff[3].Action = MODIFY_COLUMN
    /\ ddlErr = "modify column not supported"
    /\ ddls = <<>>

\* C11: for the change types truncate, drop-table and drop-schema
\* GenDDLViaColumnsDiff returns exactly one statement (TRUNCATE TABLE, DROP
\* TABLE, DROP SCHEMA ... CASCADE) and no error, whatever the column diff
\* would be; for create-table, create-schema and rename-table (of one table
\* or of several) it returns an error and no statement.
C11_TableLevelChangeTypes ==
    dpc = "returned" =>
        /\ curType = ActionTruncateTable =>
              (ddlErr = "nil" /\ ddls = << <<"TRUNCATE TABLE", CurTable>> >>)
        /\ curType = ActionDropTable =>
              (ddlErr = "nil" /\ ddls = << <<"DROP TABLE", CurTable>> >>)
        /\ curType = ActionDropSchema =>
              (ddlErr = "nil" /\ ddls = << <<"DROP SCHEMA", CurSchema, "CASCADE">> >>)
        /\ curType \in {ActionCreateTable, ActionCreateSchema,
                        ActionRenameTable, ActionRenameTables} =>
              (ddlErr # "nil" /\ ddls = <<>>)

\* ---------------------------------------------- runWithServer claims ----
BodyReturned == bodyState \in {"ok", "failed"}

\* C12: with the server asked for, body and server are two independent
\* flows: body is started exactly once, in a goroutine of its own, and its
\* return, whether its work was done or failed, never stops the server: the
\* calling flow goes on to serve and the server is never stopped.  Without
\* the server, body runs exactly once in the calling flow, no listener is
\* opened and no server is started.
C12_BodyAndServerIndependent ==
    /\ bodyStarts <= 1
    /\ server # "stopped"
    /\ startServer =>
          /\ wpc \in {"spawned", "serving"} => bodyStarts = 1
          /\ bodyStarts = 1 => (bodyFlow = "goroutine" /\ wpc \in {"spawned", "serving"})
          /\ wpc = "serving" <=> server = "serving"
    /\ ~startServer =>
          /\ server = "none" /\ listener = "none" /\ served = 0
          /\ bodyStarts = 1 => bodyFlow = "caller"
          /\ wpc = "inBody" <=> bodyState = "running"
          /\ wpc = "returned" <=> BodyReturned

\* The server answers a request after the body has failed.
C12_Witness ==
    /\ startServer
    /\ bodyState = "failed"
    /\ server = "serving"
    /\ servedAfterBody > 0

\* C20: with the server asked for, body is started only after net.Listen
\* has opened the listener: when net.Listen fails the body is never run, and
\* in no execution is body started more than once.
C20_BodyOnlyAfterListen ==
    /\ bodyStarts <= 1
    /\ (startServer /\ bodyStarts > 0) => listener = "open"
    /\ listener = "failed" =>
          (bodyStarts = 0 /\ bodyState = "notstarted" /\ bodySteps = 0
           /\ wpc = "exited")

\* net.Listen has failed and the process has ended.
C20_Witness ==
    /\ startServer
    /\ listener = "failed"
    /\ wpc = "exited"

\* ------------------------------------------ orchestrator claims (2) ----
\* C13: when every invocation runs in mode Full, the consistency position
\* the snapshot dump was run with equals the start position the capture job
\* of the storage root was created with, also when the dump runs in a later
\* invocation than the one that created the capture job.
C13_DumpAtChangefeedStart ==
    (modeHist = RunModeFull /\ cdcStartTs # -1 /\ dumpTs # -1) =>
        dumpTs = cdcStartTs

\* The stage action of step i starts in this step of the invocation.
Starts(i) == ~Called(StageActions[i]) /\ Called(StageActions[i])'

\* C14: when a stage action starts, the marker of the action before it
\* exists, unless the run mode of the invocation skips that action: the dump
\* starts with increment/metadata present, the snapshot load with
\* snapshot/metadata, the incremental load with snapshot/loadinfo.
C14_PredecessorMarkerPresent ==
    [][\A i \in 2..Len(StageActions) :
          Starts(i) =>
              \/ MarkerFiles[i - 1] \in markers
              \/ mode' \in SkippedBy(StageActions[i - 1])]_vars

\* In mode full an invocation entered at init has come to the snapshot load.
C14_Witness ==
    /\ mode = RunModeFull
    /\ stage = StageInit
    /\ Called("StartReplicateSnapshot")
    /\ SnapshotMetadata \in markers

\* The positions the upstream handed out to invocations before the current
\* one (an invocation that is not in mode full takes none itself).
EstablishedBefore == IF mode = RunModeFull THEN 1..(nextTSO - 1) ELSE 1..nextTSO

\* C15: the start position passed to the creation of the capture job is
\* fresh, taken from the upstream by this invocation, only in mode full; in
\* mode incremental-only the position passed to the creation of the capture
\* job is one a previous run established, and so is the position passed to
\* the dump in mode snapshot-only.
C15_StartPositionOrigin ==
    /\ Called("CreateChangefeed") =>
          (Called("GetCurrentTSO") /\ startTSO = nextTSO <=> mode = RunModeFull)
    /\ (Called("CreateChangefeed") /\ mode = RunModeIncrementalOnly) =>
          startTSO \in EstablishedBefore
    /\ (Called("RunDump") /\ mode = RunModeSnapshotOnly) =>
          startTSO \in EstablishedBefore

\* The indices of the calls in tr that completed and left a marker.
Completed(tr) == {i \in 1..Len(tr) : tr[i].ok /\ MarkerOf(tr[i].act) # {}}

\* The stage whose marker the call of the stage action act leaves.
StageAfter(act) ==
    Stage[1 + CHOOSE i \in 1..Len(StageActions) : StageActions[i] = act]

\* The stage of the marker that the invocation with trace tr completed last.
LastCompletedStage(tr) ==
    LET last == CHOOSE i \in Completed(tr) : \A j \in Completed(tr) : j <= i
    IN  StageAfter(tr[last].act)

\* No step removes a marker, and a step in which a stage action fails or the
\* invocation is aborted leaves the markers as they were.
MarkersKept ==
    /\ markers \subseteq markers'
    /\ result' \in {"err", "aborted"} => markers' = markers

\* The entry stage of an invocation is not before that of the one before it.
EntryStageNonDecreasing ==
    (pc \in {"idle", "returned"} /\ ~checkErr') =>
        StageIndex(stage') >= StageIndex(stage)

\* A restart enters at the stage of the marker completed last.
RestartAtLastCompleted ==
    (pc = "returned" /\ ~checkErr' /\ Completed(trace) # {}) =>
        stage' = LastCompletedStage(trace)

\* C16: a failed or aborted stage action leaves the markers as they were
\* before it started and Replicate never removes a marker; so over every
\* sequence of invocations the entry stage checkStage returns is
\* non-decreasing, and on a restart it is the stage of the last completed
\* marker.
C16_RestartAtLastMarker ==
    [][MarkersKept /\ EntryStageNonDecreasing /\ RestartAtLastCompleted]_vars

\* ---------------------------------------------- merge claims (2) ----
\* C17: running the merge of the same batch a second time, on the table the
\* first run left, leaves that table unchanged, for every starting table and
\* every batch whose rows of one key have distinct commit timestamps.
C17_ReplayIsIdempotent ==
    (mpc = "reapplied" /\ DistinctTs) =>
        /\ ~mergeErr
        /\ target = prevTarget

\* The replayed batch updates one key, inserts and then deletes another:
\* the first run changed the table, the second did not.
C17_Witness ==
    /\ mpc = "reapplied"
    /\ DistinctTs
    /\ Cardinality(batch) = 3
    /\ target = prevTarget
    /\ \E u, a, d \in batch :
          /\ FlagOf(u) = "U" /\ DataOf(u) \in target
          /\ KeyOf(a) = KeyOf(d) /\ KeyOf(a) # KeyOf(u)
          /\ FlagOf(a) = "I" /\ FlagOf(d) = "D" /\ TsOf(a) < TsOf(d)
          /\ \A t \in target : KeyOf(t) # KeyOf(d)

\* The clause of the generated statement that does `do`.
ClauseOf(do) ==
    mergeSQL.when[CHOOSE i \in 1..Len(mergeSQL.when) : mergeSQL.when[i].do = do]

ColumnNames == [i \in 1..Len(tableDef) |-> tableDef[i].Name]
KeyColumns == {tableDef[i].Name : i \in {j \in 1..Len(tableDef) : tableDef[j].IsPK = "true"}}
NonKeyColumns == {tableDef[i].Name : i \in 1..Len(tableDef)} \ KeyColumns

\* The INSERT branch lists every column once, with the value of the same
\* column of S, and the join condition has exactly one equality T.c = S.c
\* per primary-key column c.
InsertAndJoinShape ==
    /\ ClauseOf("INSERT").cols = ColumnNames
    /\ ClauseOf("INSERT").values = ColumnNames
    /\ \A c \in KeyColumns :
          Cardinality({i \in 1..Len(mergeSQL.on) : mergeSQL.on[i].t = c}) = 1
    /\ \A i \in 1..Len(mergeSQL.on) :
          mergeSQL.on[i].t \in KeyColumns /\ mergeSQL.on[i].s = mergeSQL.on[i].t

\* C18 as stated: the UPDATE branch assigns exactly the non-key columns (no
\* primary-key column is in the SET list), the INSERT branch lists all
\* columns, and the join condition has exactly one equality T.c = S.c per
\* primary-key column c.
C18_UpdateSetsNonKeyColumns ==
    mpc = "generated" =>
        /\ {ClauseOf("UPDATE").set[i].col : i \in 1..Len(ClauseOf("UPDATE").set)}
               = NonKeyColumns
        /\ InsertAndJoinShape

\* C18, amended: the UPDATE branch assigns every column of the table, the
\* primary-key columns included, each from the same column of S and each
\* once, in column order; the INSERT branch lists all columns, and the join
\* condition has exactly one equality T.c = S.c per primary-key column c.
C18_UpdateSetsAllColumns ==
    mpc = "generated" =>
        /\ [i \in 1..Len(ClauseOf("UPDATE").set) |-> ClauseOf("UPDATE").set[i].col]
               = ColumnNames
        /\ \A i \in 1..Len(ClauseOf("UPDATE").set) :
              ClauseOf("UPDATE").set[i].s = ClauseOf("UPDATE").set[i].col
        /\ InsertAndJoinShape

\* A statement for a table of a key column and a column that is not in the
\* key.
C18_Witness ==
    /\ mpc = "generated"
    /\ Len(tableDef) = 2
    /\ KeyColumns # {}
    /\ NonKeyColumns # {}
    /\ Len(mergeSQL.on) = 1
    /\ Len(ClauseOf("UPDATE").set) = 2

\* ----------------------------------------------------- DDL claims (2) ----
\* The items of the column diff that are not Unchanged, in diff order.
Changing == SelectSeq(columnDiff, LAMBDA item : item.Action # UNCHANGE)

\* Statement stmt is the one statement of diff item `item`.
Renders(stmt, item) ==
    /\ Len(stmt) >= 5
    /\ stmt[1] = "ALTER TABLE" /\ stmt[2] = CurTable /\ stmt[Len(stmt)] = ";"
    /\ CASE item.Action = ADD_COLUMN ->
                stmt[3] = "ADD COLUMN" /\ stmt[4] = item.After.Name
         [] item.Action = DROP_COLUMN ->
                stmt[3] = "DROP COLUMN" /\ stmt[4] = item.Before.Name
         [] item.Action = RENAME_COLUMN ->
                /\ stmt[3] = "RENAME COLUMN" /\ stmt[4] = item.Before.Name
                /\ stmt[5] = "TO" /\ stmt[6] = item.After.Name
         [] OTHER -> FALSE

\* One statement per Add, Drop or Rename item, in diff order, none for an
\* Unchanged item, and no error.
OnePerChangingItem ==
    /\ ddlErr = "nil"
    /\ ~ddlsNil
    /\ Len(ddls) = Len(Changing)
    /\ \A i \in 1..Len(ddls) : Renders(ddls[i], Changing[i])

\* A column diff was computed for a change type that the claims count as a
\* column-level one, and it holds no Modify item.
ColumnLevelDiff ==
    /\ dpc = "returned"
    /\ curType \notin TableLevelTypes \cup {ActionRenameTable}
    /\ ~diffErr
    /\ ~HasItem(MODIFY_COLUMN)

\* An Add item of the diff has a type the dialect has no name for.
HasUnmappedAdd ==
    \E i \in 1..Len(columnDiff) :
        /\ columnDiff[i].Action = ADD_COLUMN
        /\ GetDatabricksTypeString(columnDiff[i].After).err # "nil"

\* C19 as stated: for a column diff without Modify items and without a
\* table-level change type, GenDDLViaColumnsDiff returns exactly one statement
\* per Add, Drop or Rename item, in diff order, and none for an Unchanged
\* item; a diff of Unchanged items only gives an empty list and no error.
C19_OneStatementPerItem ==
    ColumnLevelDiff => OnePerChangingItem

\* C19, amended: the same, for a diff whose Add items all have a type the
\* dialect has a name for; with an Add item of another type the function
\* returns an error and no statement.
C19_OneStatementPerMappedItem ==
    ColumnLevelDiff =>
        IF HasUnmappedAdd THEN ddlErr # "nil" /\ ddlsNil /\ ddls = <<>>
        ELSE OnePerChangingItem

\* An Add, an Unchanged and a Rename item give two statements.
C19_Witness ==
    /\ ColumnLevelDiff
    /\ Len(columnDiff) = 3
    /\ columnDiff[1].Action = ADD_COLUMN
    /\ columnDiff[2].Action = UNCHANGE
    /\ columnDiff[3].Action = RENAME_COLUMN
    /\ Len(ddls) = 2
    /\ ddlErr = "nil"

====
